---- MODULE Spec2Model ----
(***************************************************************************)
(* A state-machine model of maze_sdl2.c: the cell/wall grid, the iterative *)
(* depth-first maze generator, the wall-aware movement predicate and the   *)
(* session logic of main's event loop.                                     *)
(***************************************************************************)
EXTENDS Integers, Sequences, FiniteSets, TLC

(* ------------------------------------------------------------------ *)
(* Sizes.  The program is compiled with MAZE_W = 21 and MAZE_H = 15;   *)
(* the model is explored on a smaller grid of the same shape.          *)
(* ------------------------------------------------------------------ *)
MAZE_W == 3
MAZE_H == 2

\* rand() returns a value in 0..MaxRand; the generator uses rand() % ncount.
MaxRand == 3

\* enum { WALL_N = 1, WALL_E = 2, WALL_S = 4, WALL_W = 8 }
WALL_N == 1
WALL_E == 2
WALL_S == 4
WALL_W == 8

Cols == 0 .. (MAZE_W - 1)
Rows == 0 .. (MAZE_H - 1)

TITLE_PLAY == "SDL2 Maze - Reach the green goal (R to regenerate)"
TITLE_WIN  == "You win! Press R to regenerate, Esc to quit"

VARIABLES
  pc,        \* control location of main
  g,         \* static Cell g[MAZE_H][MAZE_W], indexed g[y][x]
  stack,     \* maze_generate's explicit stack; top = Len(stack)
  px, py,    \* the player cell
  won,       \* the won latch
  running,   \* main's loop flag
  title,     \* the window title last set
  e,         \* the SDL_Event last returned by SDL_PollEvent
  ret,       \* return values of the try_move calls of the last handled event
  wasWon,    \* value of won when the last event was polled
  caller,    \* who called regenerate: "startup" or "keydown"
  frame,     \* the draw calls of the last rendered frame
  exitcode,  \* main's return value, -1 while the process runs
  sdl,       \* outcomes of the SDL start-up calls made so far, in order
  g2,        \* the grid of a second execution of maze_init + maze_generate,
  stack2     \* and its stack: a fresh process fed the same rand() values

vars == <<pc, g, stack, px, py, won, running, title, e, ret, wasWon,
          caller, frame, exitcode, sdl, g2, stack2>>

(* ------------------------------------------------------------------ *)
(* Bit operations on the uint8_t wall mask.                            *)
(* ------------------------------------------------------------------ *)
\* (w & bit) != 0 for a single-bit mask
HasWall(w, bit) == (w \div bit) % 2 = 1

\* w & ~bit for a single-bit mask
ClearWall(w, bit) == IF HasWall(w, bit) THEN w - bit ELSE w

\* WALL_N | WALL_E | WALL_S | WALL_W (the four bits are disjoint)
ALL_WALLS == WALL_N + WALL_E + WALL_S + WALL_W

in_bounds(x, y) == x >= 0 /\ x < MAZE_W /\ y >= 0 /\ y < MAZE_H

(* ------------------------------------------------------------------ *)
(* knock_down: remove the wall between (x,y) and (nx,ny).              *)
(* ------------------------------------------------------------------ *)
\* the two assignments of one branch of knock_down, in order
ClearPair(grid, x, y, b1, nx, ny, b2) ==
  LET g1 == [grid EXCEPT ![y][x].walls = ClearWall(@, b1)]
  IN  [g1 EXCEPT ![ny][nx].walls = ClearWall(@, b2)]

\* a knock_down with the two bits of each branch exchanged
knock_down_swapped(grid, x, y, nx, ny) ==
  IF nx = x /\ ny = y - 1 THEN ClearPair(grid, x, y, WALL_S, nx, ny, WALL_N)
  ELSE IF nx = x + 1 /\ ny = y THEN ClearPair(grid, x, y, WALL_W, nx, ny, WALL_E)
  ELSE IF nx = x /\ ny = y + 1 THEN ClearPair(grid, x, y, WALL_N, nx, ny, WALL_S)
  ELSE IF nx = x - 1 /\ ny = y THEN ClearPair(grid, x, y, WALL_E, nx, ny, WALL_W)
  ELSE grid

\* a knock_down that forgets the neighbour's side of the wall
knock_down_oneside(grid, x, y, nx, ny) ==
  IF nx = x /\ ny = y - 1 THEN [grid EXCEPT ![y][x].walls = ClearWall(@, WALL_N)]
  ELSE IF nx = x + 1 /\ ny = y THEN [grid EXCEPT ![y][x].walls = ClearWall(@, WALL_E)]
  ELSE IF nx = x /\ ny = y + 1 THEN [grid EXCEPT ![y][x].walls = ClearWall(@, WALL_S)]
  ELSE IF nx = x - 1 /\ ny = y THEN [grid EXCEPT ![y][x].walls = ClearWall(@, WALL_W)]
  ELSE grid

knock_down(grid, x, y, nx, ny) ==
  IF nx = x /\ ny = y - 1 THEN ClearPair(grid, x, y, WALL_N, nx, ny, WALL_S)
  ELSE IF nx = x + 1 /\ ny = y THEN ClearPair(grid, x, y, WALL_E, nx, ny, WALL_W)
  ELSE IF nx = x /\ ny = y + 1 THEN ClearPair(grid, x, y, WALL_S, nx, ny, WALL_N)
  ELSE IF nx = x - 1 /\ ny = y THEN ClearPair(grid, x, y, WALL_W, nx, ny, WALL_E)
  ELSE grid

\* the grid maze_init leaves: every wall present, nothing visited
maze_init ==
  [y \in Rows |-> [x \in Cols |-> [walls |-> ALL_WALLS, visited |-> FALSE]]]

\* the zero-initialised static array before maze_init has run
StaticGrid ==
  [y \in Rows |-> [x \in Cols |-> [walls |-> 0, visited |-> FALSE]]]

(* ------------------------------------------------------------------ *)
(* maze_generate's neighbour scan.                                     *)
(* ------------------------------------------------------------------ *)
\* const int dx[4] = { 0, 1, 0, -1 }; const int dy[4] = { -1, 0, 1, 0 };
DX == <<0, 1, 0, -1>>
DY == <<-1, 0, 1, 0>>

RECURSIVE CollectFrom(_, _, _, _)
\* neigh[] as filled by the for loop from index i on (i = 1..4, 1-based)
CollectFrom(grid, x, y, i) ==
  IF i > 4 THEN <<>>
  ELSE LET nx == x + DX[i]
           ny == y + DY[i]
           rest == CollectFrom(grid, x, y, i + 1)
       IN  IF in_bounds(nx, ny) /\ ~grid[ny][nx].visited
             THEN <<[x |-> nx, y |-> ny]>> \o rest
             ELSE rest

\* neigh[0..ncount-1]: the unvisited in-bounds neighbours in scan order
Neigh(grid, x, y) == CollectFrom(grid, x, y, 1)

(* ------------------------------------------------------------------ *)
(* maze_generate as functions of the grid, the stack and rand()'s      *)
(* value: the steps of the second execution.                           *)
(* ------------------------------------------------------------------ *)
\* lines 61-64: mark (sx, sy) visited and push it
generate_start(grid, sx, sy) ==
  [g |-> [grid EXCEPT ![sy][sx].visited = TRUE],
   stack |-> <<[x |-> sx, y |-> sy]>>]

\* one iteration of `while (top > 0)`, rand() returning r if it is called
generate_iter(grid, stk, r) ==
  IF Len(stk) = 0 THEN [g |-> grid, stack |-> stk]
  ELSE LET cur   == stk[Len(stk)]
           neigh == Neigh(grid, cur.x, cur.y)
       IN  IF Len(neigh) = 0
             THEN [g |-> grid, stack |-> SubSeq(stk, 1, Len(stk) - 1)]
             ELSE LET pick == r % Len(neigh)
                      n    == neigh[pick + 1]
                      g1   == knock_down(grid, cur.x, cur.y, n.x, n.y)
                  IN  [g |-> [g1 EXCEPT ![n.y][n.x].visited = TRUE],
                       stack |-> Append(stk, n)]

\* lines 100-103: clear every visited flag
clear_visited(grid) ==
  [y \in Rows |-> [x \in Cols |-> [grid[y][x] EXCEPT !.visited = FALSE]]]

(* ------------------------------------------------------------------ *)
(* try_move: returns the moved flag and the new player cell.           *)
(* ------------------------------------------------------------------ *)
\* a try_move that writes the player cell before its checks
\* (a read outside the array is taken to see no wall)
try_move_early(grid, x, y, dx, dy) ==
  LET nx == x + dx
      ny == y + dy
      w  == IF in_bounds(x, y) THEN grid[y][x].walls ELSE 0
  IN  IF ~in_bounds(nx, ny) THEN [moved |-> FALSE, px |-> nx, py |-> ny]
      ELSE IF dx = 0 /\ dy = -1 /\ HasWall(w, WALL_N)
        THEN [moved |-> FALSE, px |-> nx, py |-> ny]
      ELSE IF dx = 1 /\ dy = 0 /\ HasWall(w, WALL_E)
        THEN [moved |-> FALSE, px |-> nx, py |-> ny]
      ELSE IF dx = 0 /\ dy = 1 /\ HasWall(w, WALL_S)
        THEN [moved |-> FALSE, px |-> nx, py |-> ny]
      ELSE IF dx = -1 /\ dy = 0 /\ HasWall(w, WALL_W)
        THEN [moved |-> FALSE, px |-> nx, py |-> ny]
      ELSE [moved |-> TRUE, px |-> nx, py |-> ny]

\* a try_move that tests the west wall when moving east
try_move_wrongbit(grid, x, y, dx, dy) ==
  LET nx == x + dx
      ny == y + dy
      w  == grid[y][x].walls
  IN  IF ~in_bounds(nx, ny) THEN [moved |-> FALSE, px |-> x, py |-> y]
      ELSE IF dx = 0 /\ dy = -1 /\ HasWall(w, WALL_N)
        THEN [moved |-> FALSE, px |-> x, py |-> y]
      ELSE IF dx = 1 /\ dy = 0 /\ HasWall(w, WALL_W)
        THEN [moved |-> FALSE, px |-> x, py |-> y]
      ELSE IF dx = 0 /\ dy = 1 /\ HasWall(w, WALL_S)
        THEN [moved |-> FALSE, px |-> x, py |-> y]
      ELSE IF dx = -1 /\ dy = 0 /\ HasWall(w, WALL_W)
        THEN [moved |-> FALSE, px |-> x, py |-> y]
      ELSE [moved |-> TRUE, px |-> nx, py |-> ny]

try_move(grid, x, y, dx, dy) ==
  LET nx == x + dx
      ny == y + dy
      w  == grid[y][x].walls
  IN  IF ~in_bounds(nx, ny) THEN [moved |-> FALSE, px |-> x, py |-> y]
      ELSE IF dx = 0 /\ dy = -1 /\ HasWall(w, WALL_N)
        THEN [moved |-> FALSE, px |-> x, py |-> y]
      ELSE IF dx = 1 /\ dy = 0 /\ HasWall(w, WALL_E)
        THEN [moved |-> FALSE, px |-> x, py |-> y]
      ELSE IF dx = 0 /\ dy = 1 /\ HasWall(w, WALL_S)
        THEN [moved |-> FALSE, px |-> x, py |-> y]
      ELSE IF dx = -1 /\ dy = 0 /\ HasWall(w, WALL_W)
        THEN [moved |-> FALSE, px |-> x, py |-> y]
      ELSE [moved |-> TRUE, px |-> nx, py |-> ny]

(* ------------------------------------------------------------------ *)
(* Input events.                                                       *)
(* ------------------------------------------------------------------ *)
\* key codes main distinguishes, and one key ("x") it does not
MoveKeys == {"UP", "w", "RIGHT", "d", "DOWN", "s", "LEFT", "a"}
Keys == MoveKeys \cup {"r", "ESCAPE", "x"}

\* events SDL_PollEvent can deliver: window close, a key press, anything else
Events ==
  {[type |-> "QUIT", key |-> "none"], [type |-> "OTHER", key |-> "none"]}
    \cup {[type |-> "KEYDOWN", key |-> k] : k \in Keys}

NoEvent == [type |-> "NONE", key |-> "none"]

(* ------------------------------------------------------------------ *)
(* The body of main's `if (!won) { ... }` block for key k.             *)
(* ------------------------------------------------------------------ *)
\* one `if (k == A || k == B) try_move(&px, &py, dx, dy);` line
MoveLine(st, k, keys, dx, dy) ==
  IF k \in keys
    THEN LET r == try_move(g, st.px, st.py, dx, dy)
         IN  [px |-> r.px, py |-> r.py, ret |-> Append(st.ret, r.moved)]
    ELSE st

\* the four movement lines in source order, the player starting at (x, y)
MoveLines(x, y, k) ==
  LET s0 == [px |-> x, py |-> y, ret |-> <<>>]
      s1 == MoveLine(s0, k, {"UP", "w"}, 0, -1)
      s2 == MoveLine(s1, k, {"RIGHT", "d"}, 1, 0)
      s3 == MoveLine(s2, k, {"DOWN", "s"}, 0, 1)
  IN  MoveLine(s3, k, {"LEFT", "a"}, -1, 0)

\* a goal test that forgets the - 1
AtGoal_offbyone(x, y) == x = MAZE_W /\ y = MAZE_H

\* `if (px == MAZE_W - 1 && py == MAZE_H - 1)`
AtGoal(x, y) == x = MAZE_W - 1 /\ y = MAZE_H - 1

\* a session that lets movement keys through while won is set
PlayBlock_nolatch(k, w) ==
  LET m == MoveLines(px, py, k)
  IN  /\ px' = m.px
      /\ py' = m.py
      /\ ret' = m.ret
      /\ won' = (w \/ AtGoal(m.px, m.py))
      /\ title' = IF AtGoal(m.px, m.py) THEN TITLE_WIN ELSE title

\* a session that runs the win check only after a successful move
PlayBlock_onlymoved(k, w) ==
  IF w
    THEN /\ won' = w
         /\ ret' = <<>>
         /\ UNCHANGED <<px, py, title>>
    ELSE LET m == MoveLines(px, py, k)
             hit == AtGoal(m.px, m.py) /\ m.ret = <<TRUE>>
         IN  /\ px' = m.px
             /\ py' = m.py
             /\ ret' = m.ret
             /\ won' = hit
             /\ title' = IF hit THEN TITLE_WIN ELSE title

\* lines 240-250 with the latch value w read by `if (!won)`;
\* px, py, title are the values before the block
PlayBlock(k, w) ==
  IF w
    THEN /\ won' = w
         /\ ret' = <<>>
         /\ UNCHANGED <<px, py, title>>
    ELSE LET m == MoveLines(px, py, k)
         IN  /\ px' = m.px
             /\ py' = m.py
             /\ ret' = m.ret
             /\ won' = AtGoal(m.px, m.py)
             /\ title' = IF AtGoal(m.px, m.py) THEN TITLE_WIN ELSE title

(* ------------------------------------------------------------------ *)
(* Startup: lines 191-217.                                             *)
(* ------------------------------------------------------------------ *)
Fail ==
  /\ pc' = "done"
  /\ exitcode' = 1
  /\ sdl' = Append(sdl, FALSE)
  /\ UNCHANGED <<g, stack, px, py, won, running, title, e, ret, wasWon,
                 caller, frame,
                 g2, stack2>>

SDL_Init ==
  /\ pc = "sdl_init"
  /\ \E ok \in BOOLEAN :
       IF ok
         THEN /\ pc' = "create_window"
              /\ sdl' = Append(sdl, TRUE)
              /\ UNCHANGED <<g, stack, px, py, won, running, title, e, ret,
                             wasWon, caller, frame, exitcode,
                 g2, stack2>>
         ELSE Fail

SDL_CreateWindow ==
  /\ pc = "create_window"
  /\ \E ok \in BOOLEAN :
       IF ok
         THEN /\ pc' = "create_renderer"
              /\ sdl' = Append(sdl, TRUE)
              /\ title' = TITLE_PLAY
              /\ UNCHANGED <<g, stack, px, py, won, running, e, ret,
                             wasWon, caller, frame, exitcode,
                 g2, stack2>>
         ELSE Fail

\* a main that does not test the renderer pointer
SDL_CreateRenderer_nocheck ==
  /\ pc = "create_renderer"
  /\ \E ok \in BOOLEAN :
       /\ pc' = "maze_init"
       /\ sdl' = Append(sdl, ok)
       /\ px' = 0
       /\ py' = 0
       /\ caller' = "startup"
       /\ UNCHANGED <<g, stack, won, running, title, e, ret,
                      wasWon, frame, exitcode, g2, stack2>>

\* on success main goes on to `int px = 0, py = 0; regenerate(...)`
SDL_CreateRenderer ==
  /\ pc = "create_renderer"
  /\ \E ok \in BOOLEAN :
       IF ok
         THEN /\ pc' = "maze_init"
              /\ sdl' = Append(sdl, TRUE)
              /\ px' = 0
              /\ py' = 0
              /\ caller' = "startup"
              /\ UNCHANGED <<g, stack, won, running, title, e, ret,
                             wasWon, frame, exitcode,
                 g2, stack2>>
         ELSE Fail

(* ------------------------------------------------------------------ *)
(* regenerate: maze_init(); maze_generate(0, 0); player; title.        *)
(* ------------------------------------------------------------------ *)
\* a regenerate that forgets to call maze_init
MazeInit_skip ==
  /\ pc = "maze_init"
  /\ pc' = "gen_begin"
  /\ g2' = maze_init
  /\ stack2' = <<>>
  /\ UNCHANGED <<g, stack, px, py, won, running, title, e, ret, wasWon,
                 caller, frame, exitcode, sdl>>

MazeInit ==
  /\ pc = "maze_init"
  /\ g' = maze_init
  /\ pc' = "gen_begin"
  /\ g2' = maze_init
  /\ stack2' = <<>>
  /\ UNCHANGED <<stack, px, py, won, running, title, e, ret, wasWon,
                 caller, frame, exitcode,
                 sdl>>

\* a maze_generate that pushes the start cell without marking it visited
GenerateStart_unmarked ==
  /\ pc = "gen_begin"
  /\ stack' = <<[x |-> 0, y |-> 0]>>
  /\ pc' = "gen_loop"
  /\ g2' = generate_start(g2, 0, 0).g
  /\ stack2' = generate_start(g2, 0, 0).stack
  /\ UNCHANGED <<g, px, py, won, running, title, e, ret, wasWon, caller,
                 frame, exitcode,
                 sdl>>

\* lines 61-64 with (sx, sy) = (0, 0): mark the start visited and push it
GenerateStart ==
  /\ pc = "gen_begin"
  /\ g' = [g EXCEPT ![0][0].visited = TRUE]
  /\ stack' = <<[x |-> 0, y |-> 0]>>
  /\ pc' = "gen_loop"
  /\ g2' = generate_start(g2, 0, 0).g
  /\ stack2' = generate_start(g2, 0, 0).stack
  /\ UNCHANGED <<px, py, won, running, title, e, ret, wasWon, caller,
                 frame, exitcode,
                 sdl>>

\* a backtrack that forgets `top--`
Backtrack_nopop ==
  /\ pc = "gen_loop"
  /\ Len(stack) > 0
  /\ LET cur == stack[Len(stack)]
     IN  Len(Neigh(g, cur.x, cur.y)) = 0
  /\ \E r \in 0 .. MaxRand :
       /\ g2' = generate_iter(g2, stack2, r).g
       /\ stack2' = generate_iter(g2, stack2, r).stack
  /\ UNCHANGED <<pc, g, stack, px, py, won, running, title, e, ret, wasWon,
                 caller, frame, exitcode, sdl>>

\* one iteration of `while (top > 0)` that finds no unvisited neighbour
Backtrack ==
  /\ pc = "gen_loop"
  /\ Len(stack) > 0
  /\ LET cur == stack[Len(stack)]
     IN  /\ Len(Neigh(g, cur.x, cur.y)) = 0
         /\ stack' = SubSeq(stack, 1, Len(stack) - 1)
  /\ \E r \in 0 .. MaxRand :
       /\ g2' = generate_iter(g2, stack2, r).g
       /\ stack2' = generate_iter(g2, stack2, r).stack
  /\ UNCHANGED <<pc, g, px, py, won, running, title, e, ret, wasWon,
                 caller, frame, exitcode,
                 sdl>>

\* a carving iteration that forgets to mark the neighbour visited
CarveWith_nomark(r) ==
  /\ pc = "gen_loop"
  /\ Len(stack) > 0
  /\ LET cur   == stack[Len(stack)]
         neigh == Neigh(g, cur.x, cur.y)
     IN  /\ Len(neigh) > 0
         /\ LET pick == r % Len(neigh)
                n    == neigh[pick + 1]
            IN  /\ g' = knock_down(g, cur.x, cur.y, n.x, n.y)
                /\ stack' = Append(stack, n)
  /\ g2' = generate_iter(g2, stack2, r).g
  /\ stack2' = generate_iter(g2, stack2, r).stack
  /\ UNCHANGED <<pc, px, py, won, running, title, e, ret, wasWon, caller,
                 frame, exitcode, sdl>>

\* one iteration that carves, rand() having returned r: pick = r % ncount
CarveWith(r) ==
  /\ pc = "gen_loop"
  /\ Len(stack) > 0
  /\ LET cur   == stack[Len(stack)]
         neigh == Neigh(g, cur.x, cur.y)
     IN  /\ Len(neigh) > 0
         /\ LET pick == r % Len(neigh)
                n    == neigh[pick + 1]
                g1   == knock_down(g, cur.x, cur.y, n.x, n.y)
            IN  /\ g' = [g1 EXCEPT ![n.y][n.x].visited = TRUE]
                /\ stack' = Append(stack, n)
  /\ g2' = generate_iter(g2, stack2, r).g
  /\ stack2' = generate_iter(g2, stack2, r).stack
  /\ UNCHANGED <<pc, px, py, won, running, title, e, ret, wasWon, caller,
                 frame, exitcode, sdl>>

\* the carving iteration for any value rand() can return
Carve == \E r \in 0 .. MaxRand : CarveWith(r)

\* a maze_generate that returns without the clearing pass
GenerateClearVisited_skip ==
  /\ pc = "gen_loop"
  /\ Len(stack) = 0
  /\ pc' = "gen_done"
  /\ g2' = clear_visited(g2)
  /\ UNCHANGED <<g, stack, stack2, px, py, won, running, title, e, ret,
                 wasWon, caller, frame, exitcode, sdl>>

\* lines 100-103: the loop has ended (top = 0); clear every visited flag
GenerateClearVisited ==
  /\ pc = "gen_loop"
  /\ Len(stack) = 0
  /\ g' = [y \in Rows |-> [x \in Cols |-> [g[y][x] EXCEPT !.visited = FALSE]]]
  /\ pc' = "gen_done"
  /\ g2' = clear_visited(g2)
  /\ UNCHANGED stack2
  /\ UNCHANGED <<stack, px, py, won, running, title, e, ret, wasWon, caller,
                 frame, exitcode,
                 sdl>>

\* a return from regenerate in the key handler that forgets `won = false`
RegenerateReturn_keepwon ==
  /\ pc = "gen_done"
  /\ pc' = "poll"
  /\ IF caller = "startup"
       THEN /\ px' = 0
            /\ py' = 0
            /\ title' = TITLE_PLAY
            /\ running' = TRUE
            /\ won' = FALSE
            /\ UNCHANGED ret
       ELSE /\ px' = 0
            /\ py' = 0
            /\ title' = TITLE_PLAY
            /\ UNCHANGED <<won, ret, running>>
  /\ UNCHANGED <<g, stack, e, wasWon, caller, frame, exitcode,
                 g2, stack2, sdl>>

\* maze_generate has returned: lines 183-184 of regenerate, then the code
\* after the call: at startup lines 222-223, in the key handler line 237
\* and the `if (!won)` block of lines 240-250 for the key r
RegenerateReturn ==
  /\ pc = "gen_done"
  /\ pc' = "poll"
  /\ IF caller = "startup"
       THEN /\ px' = 0
            /\ py' = 0
            /\ title' = TITLE_PLAY
            /\ running' = TRUE
            /\ won' = FALSE
            /\ UNCHANGED ret
       ELSE /\ px' = 0
            /\ py' = 0
            /\ ret' = <<>>
            /\ won' = AtGoal(0, 0)
            /\ title' = IF AtGoal(0, 0) THEN TITLE_WIN ELSE TITLE_PLAY
            /\ UNCHANGED running
  /\ UNCHANGED <<g, stack, e, wasWon, caller, frame, exitcode,
                 g2, stack2, sdl>>

(* ------------------------------------------------------------------ *)
(* Rendering: the draw calls of one frame, each with the renderer's    *)
(* draw colour at the time of the call (pixel coordinates left out).   *)
(* ------------------------------------------------------------------ *)
COLOR_BACKGROUND == <<15, 15, 18>>
COLOR_WALL == <<230, 230, 230>>
COLOR_GOAL == <<40, 160, 70>>
COLOR_PLAYER == <<220, 60, 70>>

DrawCall(name, color) == [call |-> name, color |-> color]

\* the SDL_RenderDrawLine calls of one cell: lines 127-130
cell_lines(w) ==
  (IF HasWall(w, WALL_N) THEN <<DrawCall("RenderDrawLine", COLOR_WALL)>> ELSE <<>>)
    \o (IF HasWall(w, WALL_E) THEN <<DrawCall("RenderDrawLine", COLOR_WALL)>> ELSE <<>>)
    \o (IF HasWall(w, WALL_S) THEN <<DrawCall("RenderDrawLine", COLOR_WALL)>> ELSE <<>>)
    \o (IF HasWall(w, WALL_W) THEN <<DrawCall("RenderDrawLine", COLOR_WALL)>> ELSE <<>>)

RECURSIVE maze_lines(_, _)
\* the nested loops of lines 118-132 from cell number i = y * MAZE_W + x on
maze_lines(grid, i) ==
  IF i >= MAZE_W * MAZE_H THEN <<>>
  ELSE cell_lines(grid[i \div MAZE_W][i % MAZE_W].walls) \o maze_lines(grid, i + 1)

\* a draw_player_goal that paints the player first
draw_player_goal_swapped(x, y) ==
  <<DrawCall("RenderFillRect", COLOR_PLAYER), DrawCall("RenderFillRect", COLOR_GOAL)>>

draw_maze(grid) ==
  <<DrawCall("RenderClear", COLOR_BACKGROUND)>> \o maze_lines(grid, 0)

\* the goal highlight, then the player at cell (x, y)
draw_player_goal(x, y) ==
  <<DrawCall("RenderFillRect", COLOR_GOAL), DrawCall("RenderFillRect", COLOR_PLAYER)>>

\* lines 254-257
draw_frame(grid, x, y) ==
  draw_maze(grid) \o draw_player_goal(x, y)
    \o <<DrawCall("RenderPresent", COLOR_PLAYER)>>

(* ------------------------------------------------------------------ *)
(* The event loop: lines 225-258.                                      *)
(* ------------------------------------------------------------------ *)
\* SDL_PollEvent delivers SDL_QUIT
Quit ==
  /\ pc = "poll"
  /\ e' = [type |-> "QUIT", key |-> "none"]
  /\ wasWon' = won
  /\ running' = FALSE
  /\ ret' = <<>>
  /\ UNCHANGED <<pc, g, stack, px, py, won, title, caller, frame, exitcode,
                 g2, stack2, sdl>>

\* SDL_PollEvent delivers an event that is neither SDL_QUIT nor SDL_KEYDOWN
OtherEvent ==
  /\ pc = "poll"
  /\ e' = [type |-> "OTHER", key |-> "none"]
  /\ wasWon' = won
  /\ ret' = <<>>
  /\ UNCHANGED <<pc, g, stack, px, py, won, running, title, caller, frame,
                 exitcode,
                 g2, stack2, sdl>>

\* a handler that tests for Escape inside the `if (!won)` block
KeyDown_esclatched(k) ==
  /\ pc = "poll"
  /\ k # "r"
  /\ e' = [type |-> "KEYDOWN", key |-> k]
  /\ wasWon' = won
  /\ running' = IF k = "ESCAPE" /\ ~won THEN FALSE ELSE running
  /\ PlayBlock(k, won)
  /\ UNCHANGED <<pc, g, stack, caller, frame, exitcode, g2, stack2, sdl>>

\* SDL_KEYDOWN with a key other than r: lines 233 and 240-250
KeyDown(k) ==
  /\ pc = "poll"
  /\ k # "r"
  /\ e' = [type |-> "KEYDOWN", key |-> k]
  /\ wasWon' = won
  /\ running' = IF k = "ESCAPE" THEN FALSE ELSE running
  /\ PlayBlock(k, won)
  /\ UNCHANGED <<pc, g, stack, caller, frame, exitcode,
                 g2, stack2, sdl>>

\* SDL_KEYDOWN with the key r: line 236 calls regenerate
KeyR ==
  /\ pc = "poll"
  /\ e' = [type |-> "KEYDOWN", key |-> "r"]
  /\ wasWon' = won
  /\ ret' = <<>>
  /\ caller' = "keydown"
  /\ pc' = "maze_init"
  /\ UNCHANGED <<g, stack, px, py, won, running, title, frame, exitcode,
                 g2, stack2, sdl>>

\* SDL_PollEvent returns 0: the drain ends, one frame is drawn and
\* presented (lines 254-257), then `while (running)` is tested
DrawFrame ==
  /\ pc = "poll"
  /\ frame' = draw_frame(g, px, py)
  /\ IF running
       THEN UNCHANGED <<pc, exitcode>>
       ELSE /\ pc' = "done"
            /\ exitcode' = 0
  /\ UNCHANGED <<g, stack, px, py, won, running, title, e, ret, wasWon,
                 caller,
                 g2, stack2, sdl>>

(* ------------------------------------------------------------------ *)
(* The program.                                                        *)
(* ------------------------------------------------------------------ *)
Init ==
  /\ pc = "sdl_init"
  /\ g = StaticGrid
  /\ stack = <<>>
  /\ px = 0
  /\ py = 0
  /\ won = FALSE
  /\ running = TRUE
  /\ title = ""
  /\ e = NoEvent
  /\ ret = <<>>
  /\ wasWon = FALSE
  /\ caller = "startup"
  /\ frame = <<>>
  /\ exitcode = -1
  /\ sdl = <<>>
  /\ g2 = StaticGrid
  /\ stack2 = <<>>

Next ==
  \/ SDL_Init
  \/ SDL_CreateWindow
  \/ SDL_CreateRenderer
  \/ MazeInit
  \/ GenerateStart
  \/ Backtrack
  \/ Carve
  \/ GenerateClearVisited
  \/ RegenerateReturn
  \/ Quit
  \/ OtherEvent
  \/ \E k \in Keys : KeyDown(k)
  \/ KeyR
  \/ DrawFrame

Spec == Init /\ [][Next]_vars

\* the steps of one regenerate call
RegenerateStep ==
  \/ MazeInit
  \/ GenerateStart
  \/ Backtrack
  \/ Carve
  \/ GenerateClearVisited
  \/ RegenerateReturn

\* regenerate is straight-line sequential code that waits for nothing: once
\* called it keeps executing
FairSpec == Spec /\ WF_vars(RegenerateStep)

(* ------------------------------------------------------------------ *)
(* A unit-test harness around the same functions: the scenarios of the *)
(* specification call try_move on a freshly reset grid and place the   *)
(* player on a chosen cell before an event is handled.                 *)
(* ------------------------------------------------------------------ *)
\* the four unit cardinal steps
Dirs == {<<0, -1>>, <<1, 0>>, <<0, 1>>, <<-1, 0>>}

\* the test sets the player cell (and clears the latch) by hand
ForcePlace(x, y) ==
  /\ pc \in {"gen_begin", "poll"}
  /\ px' = x
  /\ py' = y
  /\ won' = FALSE
  /\ UNCHANGED <<pc, g, stack, running, title, e, ret, wasWon, caller,
                 frame, exitcode,
                 g2, stack2, sdl>>

\* the test calls try_move(&px, &py, dx, dy) directly
CallTryMove(dx, dy) ==
  /\ pc \in {"gen_begin", "poll"}
  /\ LET r == try_move(g, px, py, dx, dy)
     IN  /\ px' = r.px
         /\ py' = r.py
         /\ ret' = <<r.moved>>
  /\ UNCHANGED <<pc, g, stack, won, running, title, e, wasWon, caller,
                 frame, exitcode,
                 g2, stack2, sdl>>

\* start-up and one generation as in main, then placements, direct calls
\* and movement key events in any order
TestNext ==
  \/ SDL_Init
  \/ SDL_CreateWindow
  \/ SDL_CreateRenderer
  \/ MazeInit
  \/ GenerateStart
  \/ Backtrack
  \/ Carve
  \/ GenerateClearVisited
  \/ RegenerateReturn
  \/ \E k \in MoveKeys : KeyDown(k)
  \/ \E x \in Cols, y \in Rows : ForcePlace(x, y)
  \/ \E d \in Dirs : CallTryMove(d[1], d[2])

TestSpec == Init /\ [][TestNext]_vars

(* ------------------------------------------------------------------ *)
(* The passage graph of a grid.                                        *)
(* ------------------------------------------------------------------ *)
Cells == {<<x, y>> : x \in Cols, y \in Rows}

Adjacent(a, b) ==
  \/ a[1] = b[1] /\ (a[2] - b[2] = 1 \/ b[2] - a[2] = 1)
  \/ a[2] = b[2] /\ (a[1] - b[1] = 1 \/ b[1] - a[1] = 1)

\* the wall bit of a cell that faces the step (dx, dy)
Facing(dx, dy) ==
  CASE dx = 0 /\ dy = -1 -> WALL_N
    [] dx = 1 /\ dy = 0  -> WALL_E
    [] dx = 0 /\ dy = 1  -> WALL_S
    [] dx = -1 /\ dy = 0 -> WALL_W

\* cell a has its wall toward the adjacent cell b set
WallToward(grid, a, b) ==
  HasWall(grid[a[2]][a[1]].walls, Facing(b[1] - a[1], b[2] - a[2]))

\* a passage: the wall between a and b is removed on both sides
Passage(grid, a, b) ==
  Adjacent(a, b) /\ ~WallToward(grid, a, b) /\ ~WallToward(grid, b, a)

\* the set of passages, each an unordered pair of cells
Passages(grid) ==
  {pr \in {{a, b} : a \in Cells, b \in Cells} :
     \E a \in pr, b \in pr : Passage(grid, a, b)}

RECURSIVE ReachFrom(_, _)
\* the cells connected to the set S by passages
ReachFrom(grid, S) ==
  LET N == S \cup {b \in Cells : \E a \in S : Passage(grid, a, b)}
  IN  IF N = S THEN S ELSE ReachFrom(grid, N)

RECURSIVE Prune(_, _)
\* what is left of S after repeatedly removing cells with at most one
\* passage into S: empty exactly when the passages within S form no cycle
Prune(grid, S) ==
  LET leaves == {a \in S : Cardinality({b \in S : Passage(grid, a, b)}) <= 1}
  IN  IF leaves = {} THEN S ELSE Prune(grid, S \ leaves)

SpanningTree(grid) ==
  /\ ReachFrom(grid, {<<0, 0>>}) = Cells
  /\ Prune(grid, Cells) = {}
  /\ Cardinality(Passages(grid)) = MAZE_W * MAZE_H - 1

\* maze_generate has returned since the last maze_init
Generated == pc \in {"gen_done", "poll"} \/ (pc = "done" /\ exitcode = 0)

(* ------------------------------------------------------------------ *)
(* Properties.                                                         *)
(* ------------------------------------------------------------------ *)

\* C1: whenever maze_init followed by maze_generate has returned, whatever
\* the random picks were, the passage graph is a spanning tree of the grid:
\* every cell is reachable from (0,0), there is no cycle, and there are
\* exactly MAZE_W * MAZE_H - 1 passages.
C1_SpanningTree == Generated => SpanningTree(g)

\* a generation has just returned and carved at least one passage
C1_Witness ==
  pc = "gen_done" /\ stack = <<>> /\ Passage(g, <<0, 0>>, <<1, 0>>)
    /\ Cardinality(Passages(g)) = MAZE_W * MAZE_H - 1

\* C2: in every reachable state (before, during and after generation, and
\* across regenerations) two 4-adjacent cells agree on the wall between
\* them: A's wall toward B is set iff B's wall toward A is set.
C2_Reciprocity ==
  \A a \in Cells, b \in Cells :
    Adjacent(a, b) => (WallToward(g, a, b) <=> WallToward(g, b, a))

\* in the middle of a carve: some walls are knocked down, others stand
C2_Witness ==
  /\ pc = "gen_loop"
  /\ Len(stack) > 1
  /\ \E a \in Cells, b \in Cells : Passage(g, a, b)
  /\ \E a \in Cells, b \in Cells : Adjacent(a, b) /\ WallToward(g, a, b)

\* the step a movement key asks for
KeyStep(k) ==
  CASE k \in {"UP", "w"}    -> <<0, -1>>
    [] k \in {"RIGHT", "d"} -> <<1, 0>>
    [] k \in {"DOWN", "s"}  -> <<0, 1>>
    [] k \in {"LEFT", "a"}  -> <<-1, 0>>

\* what try_move from the current player cell with step d must do:
\* refuse and leave the player when the target is off the grid or the source
\* cell's wall in that direction is set, else move there; never touch walls
TryMoveContract(d) ==
  LET nx == px + d[1]
      ny == py + d[2]
      off == nx < 0 \/ nx > MAZE_W - 1 \/ ny < 0 \/ ny > MAZE_H - 1
      blocked == off \/ HasWall(g[py][px].walls, Facing(d[1], d[2]))
  IN  /\ blocked => (ret' = <<FALSE>> /\ px' = px /\ py' = py)
      /\ ~blocked => (ret' = <<TRUE>> /\ px' = nx /\ py' = ny)
      /\ g' = g

\* C3: every try_move call with a unit cardinal step and an in-bounds player
\* (called directly, or by a movement key while won is false) returns false
\* and leaves the player when the target is out of bounds or the source
\* cell's wall toward it is set, and otherwise returns true and puts the
\* player on (x+dx, y+dy); the wall masks never change; on the fully walled
\* grid maze_init leaves, every call from every cell fails.
C3_TryMove ==
  /\ [][\A d \in Dirs : CallTryMove(d[1], d[2]) => TryMoveContract(d)]_vars
  /\ [][\A k \in MoveKeys : (~won /\ KeyDown(k)) => TryMoveContract(KeyStep(k))]_vars
  /\ [][\A d \in Dirs : (g = maze_init /\ CallTryMove(d[1], d[2]))
          => (ret' = <<FALSE>> /\ px' = px /\ py' = py)]_vars

\* a call on the freshly reset grid, from a cell other than the start, failed
C3_Witness ==
  /\ pc = "gen_begin"
  /\ g = maze_init
  /\ ret = <<FALSE>>
  /\ px = MAZE_W - 1
  /\ py = MAZE_H - 1

\* C4: after any sequence of input events the player cell is on the grid:
\* 0 <= px < MAZE_W and 0 <= py < MAZE_H.
C4_PlayerInBounds == px >= 0 /\ px <= MAZE_W - 1 /\ py >= 0 /\ py <= MAZE_H - 1

\* a key asked to step off the east edge and the move was refused
C4_Witness ==
  /\ pc = "poll"
  /\ e = [type |-> "KEYDOWN", key |-> "RIGHT"]
  /\ ret = <<FALSE>>
  /\ px = MAZE_W - 1

\* C5: on every generated maze, for every cell A and unit cardinal step d,
\* if try_move from A by d succeeds and lands on B then try_move from B by -d
\* succeeds and lands on A.
C5_MoveSymmetry ==
  Generated =>
    \A a \in Cells, d \in Dirs :
      LET r == try_move(g, a[1], a[2], d[1], d[2])
      IN  r.moved =>
            try_move(g, r.px, r.py, -d[1], -d[2])
              = [moved |-> TRUE, px |-> a[1], py |-> a[2]]

\* the player has just walked through a passage of a generated maze
C5_Witness ==
  /\ pc = "poll"
  /\ ret = <<TRUE>>
  /\ e = [type |-> "KEYDOWN", key |-> "LEFT"]
  /\ px = 0
  /\ py = MAZE_H - 1

RECURSIVE KeyReach(_)
\* the cells the player can be brought to from the cells of S by movement
\* key events handled while won is false
KeyReach(S) ==
  LET N == S \cup {<<m.px, m.py>> :
                     m \in {MoveLines(c[1], c[2], k) : c \in S, k \in MoveKeys}}
  IN  IF N = S THEN S ELSE KeyReach(N)

\* C6: in the state regenerate leaves (player at (0,0), won false), for
\* every maze the generator can produce, some finite sequence of movement
\* keys brings the player to a cell where the win check sets the latch.
C6_WinReachable ==
  (pc = "poll" /\ ~won /\ px = 0 /\ py = 0)
    => \E c \in KeyReach({<<px, py>>}) : AtGoal(c[1], c[2])

\* the latch has been set by walking to the goal
C6_Witness ==
  /\ pc = "poll"
  /\ won
  /\ ~wasWon
  /\ ret = <<TRUE>>
  /\ px = MAZE_W - 1
  /\ py = MAZE_H - 1

\* C7: won goes from false to true only in a step that handles a movement
\* key whose try_move returned true and left the player on
\* (MAZE_W-1, MAZE_H-1); no failed move, other key, R or quit event sets it.
C7_WonOnlyByMove ==
  [][(~won /\ won') =>
       /\ e'.type = "KEYDOWN"
       /\ e'.key \in MoveKeys
       /\ ret' = <<TRUE>>
       /\ px' = MAZE_W - 1
       /\ py' = MAZE_H - 1]_vars

\* the latch was set by a successful move onto the goal
C7_Witness ==
  /\ won
  /\ ~wasWon
  /\ e.type = "KEYDOWN"
  /\ e.key \in MoveKeys
  /\ ret = <<TRUE>>
  /\ px = MAZE_W - 1
  /\ py = MAZE_H - 1

\* C8: while won is set, a movement key event changes neither the player
\* cell nor the grid nor the latch; the player is at (MAZE_W-1, MAZE_H-1)
\* whenever won is set, and won is cleared only by the return from a
\* regenerate started by the key r.
C8_WonFreezesMoves ==
  /\ [][\A k \in MoveKeys :
          (won /\ KeyDown(k)) => (px' = px /\ py' = py /\ g' = g /\ won')]_vars
  /\ [](won => (px = MAZE_W - 1 /\ py = MAZE_H - 1))
  /\ [][(won /\ ~won') =>
          (pc = "gen_done" /\ e = [type |-> "KEYDOWN", key |-> "r"])]_vars

\* a movement key was handled while the latch was set
C8_Witness ==
  /\ pc = "poll"
  /\ wasWon
  /\ won
  /\ e.type = "KEYDOWN"
  /\ e.key \in MoveKeys
  /\ ret = <<>>
  /\ px = MAZE_W - 1
  /\ py = MAZE_H - 1

\* C9: an R key-down is honoured whether or not won is set: regenerate
\* starts from the fully walled grid, and once the event has been handled
\* the grid is a perfect maze with no visited marks, the player is at
\* (0,0), won is false and the title is the playing title.
C9_RegenerateAlways ==
  /\ (pc = "gen_begin" => g = maze_init)
  /\ (pc = "poll" /\ e = [type |-> "KEYDOWN", key |-> "r"]) =>
       /\ SpanningTree(g)
       /\ \A c \in Cells : ~g[c[2]][c[1]].visited
       /\ px = 0
       /\ py = 0
       /\ ~won
       /\ title = TITLE_PLAY

\* R was pressed in the Won state and has been handled
C9_Witness ==
  /\ pc = "poll"
  /\ e = [type |-> "KEYDOWN", key |-> "r"]
  /\ wasWon
  /\ ~won
  /\ px = 0
  /\ py = 0
  /\ title = TITLE_PLAY

\* C10: with won false and the player on any cell, placed there by hand or
\* reached by play, after a movement key's move attempt (successful or not)
\* and the win check, won is true exactly if the player is then on
\* (MAZE_W-1, MAZE_H-1).
C10_WinCheck ==
  [][\A k \in MoveKeys :
       (~won /\ KeyDown(k)) => (won' <=> (px' = MAZE_W - 1 /\ py' = MAZE_H - 1))]_vars

\* the player was placed on the goal, a move failed, and the latch was set
C10_Witness ==
  /\ pc = "poll"
  /\ won
  /\ ~wasWon
  /\ ret = <<FALSE>>
  /\ px = MAZE_W - 1
  /\ py = MAZE_H - 1

\* C11: an execution of maze_init + maze_generate inside the program (at
\* start-up or on R, whatever the grid, player and latch were before) and a
\* second execution in a fresh process, both started at (0,0) and given the
\* same rand() values, end with the same wall mask in every cell.
C11_Deterministic ==
  Generated => \A c \in Cells : g[c[2]][c[1]].walls = g2[c[2]][c[1]].walls

\* a regeneration over an earlier maze, started in the Won state, has ended
C11_Witness ==
  /\ pc = "gen_done"
  /\ caller = "keydown"
  /\ won
  /\ SpanningTree(g2)
  /\ \A c \in Cells : g[c[2]][c[1]].walls = g2[c[2]][c[1]].walls

\* C12: whenever maze_generate has returned (after start-up and after any
\* number of regenerations, so in every state between input events) no
\* cell is marked visited.
C12_VisitedCleared ==
  Generated => \A c \in Cells : ~g[c[2]][c[1]].visited

\* a regeneration has ended, between two input events, nothing is marked
C12_Witness ==
  /\ pc = "poll"
  /\ e = [type |-> "KEYDOWN", key |-> "r"]
  /\ SpanningTree(g)
  /\ \A c \in Cells : ~g[c[2]][c[1]].visited

\* the cells not yet marked visited
Unvisited(grid) == {c \in Cells : ~grid[c[2]][c[1]].visited}

\* C13: maze_generate terminates for every sequence of random picks: from
\* the reset grid the carving loop reaches the empty stack and returns, so
\* every regenerate call completes; each loop iteration either marks one
\* new cell visited and pushes it, or pops the stack top.
C13_GenerateTerminates ==
  /\ (pc = "maze_init") ~> (pc = "poll" /\ stack = <<>>)
  /\ [][(pc = "gen_loop" /\ pc' = "gen_loop") =>
          \/ /\ Len(stack') = Len(stack) + 1
             /\ SubSeq(stack', 1, Len(stack)) = stack
             /\ Unvisited(g') = Unvisited(g) \ {<<stack'[Len(stack')].x, stack'[Len(stack')].y>>}
             /\ Cardinality(Unvisited(g')) = Cardinality(Unvisited(g)) - 1
          \/ /\ Len(stack) > 0
             /\ stack' = SubSeq(stack, 1, Len(stack) - 1)
             /\ g' = g]_vars

\* a generation that had to backtrack has emptied its stack and returned
C13_Witness ==
  /\ pc = "gen_done"
  /\ stack = <<>>
  /\ caller = "keydown"
  /\ \E c \in Cells : Cardinality({b \in Cells : Passage(g, c, b)}) >= 3

\* all three start-up calls have succeeded
StartupOk == sdl = <<TRUE, TRUE, TRUE>>

\* C14: Esc and window-close are honoured whether or not won is set: the
\* handler clears running, running stays cleared, and the step that ends
\* the drain (no event pending: one frame, then the loop test) leaves the
\* loop with exit status 0; the loop is left in no other way.
C14_QuitHonoured ==
  /\ [][(Quit \/ KeyDown("ESCAPE")) => ~running']_vars
  /\ [][~running => ~running']_vars
  /\ [][(pc = "poll" /\ pc' = "done") => (~running /\ exitcode' = 0)]_vars
  /\ [][(DrawFrame /\ ~running) => (pc' = "done" /\ exitcode' = 0)]_vars

\* Esc was pressed in the Won state and the process has exited with 0
C14_Witness ==
  /\ pc = "done"
  /\ exitcode = 0
  /\ e = [type |-> "KEYDOWN", key |-> "ESCAPE"]
  /\ wasWon
  /\ won

\* C15: if SDL_Init, SDL_CreateWindow or SDL_CreateRenderer fails the
\* process has exited with a non-zero status, no maze was generated, no
\* event polled and no frame drawn; generation and the event loop are
\* reached only after all three succeeded.
C15_InitFailure ==
  /\ (\E i \in 1 .. Len(sdl) : ~sdl[i]) =>
       /\ pc = "done"
       /\ exitcode # 0
       /\ exitcode # -1
       /\ g = StaticGrid
       /\ stack = <<>>
       /\ e = NoEvent
       /\ frame = <<>>
  /\ (pc \in {"maze_init", "gen_begin", "gen_loop", "gen_done", "poll"}) => StartupOk
  /\ (pc = "done" /\ exitcode = 0) => StartupOk

\* the renderer could not be created and the process has exited
C15_Witness ==
  /\ sdl = <<TRUE, TRUE, FALSE>>
  /\ pc = "done"
  /\ exitcode = 1
  /\ g = StaticGrid

\* C16: every rendered frame is, in this order: the background clear, the
\* wall lines (one per wall bit set), the goal rectangle, the player
\* rectangle, the present; the goal fill always comes before the player
\* fill, also when the player stands on the goal cell.
C16_DrawOrder ==
  frame # <<>> =>
    LET n == Len(frame)
    IN  /\ n >= 4
        /\ frame[1] = [call |-> "RenderClear", color |-> COLOR_BACKGROUND]
        /\ \A i \in 2 .. (n - 3) :
             frame[i] = [call |-> "RenderDrawLine", color |-> COLOR_WALL]
        /\ n - 4 = 4 * MAZE_W * MAZE_H - 2 * (MAZE_W * MAZE_H - 1)
        /\ frame[n - 2] = [call |-> "RenderFillRect", color |-> COLOR_GOAL]
        /\ frame[n - 1] = [call |-> "RenderFillRect", color |-> COLOR_PLAYER]
        /\ frame[n].call = "RenderPresent"

\* the last frame before exit was drawn with the player on the goal cell
C16_Witness ==
  /\ pc = "done"
  /\ exitcode = 0
  /\ won
  /\ px = MAZE_W - 1
  /\ py = MAZE_H - 1
  /\ frame # <<>>

\* C17: during maze_generate the stack depth top stays within
\* 0 .. MAZE_W * MAZE_H, so no push writes past stack[MAZE_W * MAZE_H].
C17_StackBound == Len(stack) >= 0 /\ Len(stack) <= MAZE_W * MAZE_H

\* a carve that walked through every cell: the stack is full
C17_Witness == pc = "gen_loop" /\ Len(stack) = MAZE_W * MAZE_H

\* the cells on the stack, bottom to top
StackCells(stk) == [i \in 1 .. Len(stk) |-> <<stk[i].x, stk[i].y>>]

\* C18: within one run of maze_generate a visited flag, once set, stays set
\* until the final clearing pass; a step marks a cell visited exactly when
\* it pushes that cell; so no cell is pushed twice, the stack holds no cell
\* twice and only visited cells.
C18_VisitedOnce ==
  /\ [][(pc \in {"gen_begin", "gen_loop"} /\ pc' = "gen_loop") =>
          /\ Unvisited(g') \subseteq Unvisited(g)
          /\ (Unvisited(g) \ Unvisited(g'))
               = (IF Len(stack') > Len(stack)
                    THEN {StackCells(stack')[Len(stack')]}
                    ELSE {})]_vars
  /\ [](pc = "gen_loop" =>
          /\ \A i \in 1 .. Len(stack), j \in 1 .. Len(stack) :
               StackCells(stack)[i] = StackCells(stack)[j] => i = j
          /\ \A i \in 1 .. Len(stack) : StackCells(stack)[i] \notin Unvisited(g))

\* the generator has backtracked: a visited cell is no longer on the stack
C18_Witness ==
  /\ pc = "gen_loop"
  /\ Len(stack) > 0
  /\ Cardinality(Cells \ Unvisited(g)) > Len(stack) + 1

\* the number of wall bits of the grid that are cleared
ClearedBits(grid) ==
  Cardinality({cb \in Cells \X {WALL_N, WALL_E, WALL_S, WALL_W} :
                 ~HasWall(grid[cb[1][2]][cb[1][1]].walls, cb[2])})

\* C19: every knock_down of maze_generate is between the visited stack top
\* and a 4-adjacent, in-bounds, unvisited cell with all four walls, and
\* clears exactly the two facing bits, both set before; walls change in no
\* other step of a generation; so there is one knock per visited cell but
\* the start, MAZE_W * MAZE_H - 1 per generation, and the number of bits
\* cleared is twice that.
C19_Knocks ==
  /\ [][(pc = "gen_loop" /\ Len(stack') = Len(stack) + 1) =>
          LET a == StackCells(stack)[Len(stack)]
              b == StackCells(stack')[Len(stack')]
          IN  /\ b \in Cells
              /\ Adjacent(a, b)
              /\ a \notin Unvisited(g)
              /\ b \in Unvisited(g)
              /\ g[b[2]][b[1]].walls = WALL_N + WALL_E + WALL_S + WALL_W
              /\ WallToward(g, a, b)
              /\ g'[a[2]][a[1]].walls
                   = g[a[2]][a[1]].walls - Facing(b[1] - a[1], b[2] - a[2])
              /\ g'[b[2]][b[1]].walls
                   = g[b[2]][b[1]].walls - Facing(a[1] - b[1], a[2] - b[2])
              /\ \A c \in Cells \ {a, b} : g'[c[2]][c[1]].walls = g[c[2]][c[1]].walls
              /\ ClearedBits(g') = ClearedBits(g) + 2]_vars
  /\ [][(pc \in {"gen_begin", "gen_loop"} /\ Len(stack') # Len(stack) + 1) =>
          \A c \in Cells : g'[c[2]][c[1]].walls = g[c[2]][c[1]].walls]_vars
  /\ [](pc = "gen_loop" =>
          ClearedBits(g) = 2 * (Cardinality(Cells \ Unvisited(g)) - 1))
  /\ [](Generated =>
          /\ Cardinality(Passages(g)) = MAZE_W * MAZE_H - 1
          /\ ClearedBits(g) = 2 * (MAZE_W * MAZE_H - 1))

\* a regeneration has ended with all its knocks done
C19_Witness ==
  /\ pc = "gen_done"
  /\ caller = "keydown"
  /\ ClearedBits(g) = 2 * (MAZE_W * MAZE_H - 1)

\* every wall on the outer border of the grid is set
BorderClosed(grid) ==
  /\ \A x \in Cols : HasWall(grid[0][x].walls, WALL_N)
  /\ \A x \in Cols : HasWall(grid[MAZE_H - 1][x].walls, WALL_S)
  /\ \A y \in Rows : HasWall(grid[y][0].walls, WALL_W)
  /\ \A y \in Rows : HasWall(grid[y][MAZE_W - 1].walls, WALL_E)

\* maze_init has run at least once
Initialised == StartupOk /\ ~(pc = "maze_init" /\ caller = "startup")

\* C20 as stated: in every reachable state every border wall is set.
C20_BorderAlways == BorderClosed(g)

\* C20, amended: in every reachable state from the first maze_init on
\* (during and after every generation) every border wall is set; before
\* that the static grid is all zero.
C20_BorderAfterInit == Initialised => BorderClosed(g)

\* a finished maze, carved along the border, with its border intact
C20_Witness ==
  /\ pc = "gen_done"
  /\ Passage(g, <<0, 0>>, <<1, 0>>)
  /\ Passage(g, <<MAZE_W - 1, MAZE_H - 1>>, <<MAZE_W - 2, MAZE_H - 1>>)
  /\ BorderClosed(g)

====
